---- MODULE Spec2Model ----
(***************************************************************************)
(* TrackingAllocator (src/utils/src/allocator/mod.rs): an allocator that   *)
(* forwards to the system allocator and keeps two process-wide atomic byte *)
(* counters, ALLOC and DEALLOC.                                            *)
(*                                                                         *)
(* Every access to a counter is one SeqCst atomic operation, so an         *)
(* execution is an interleaving of these accesses and of the calls to the  *)
(* system allocator.  Each of the four operations makes two such accesses, *)
(* and is modelled by two actions:                                         *)
(*   allocate   : System.alloc            ; is_null test / record_alloc    *)
(*   deallocate : record_dealloc          ; System.dealloc                 *)
(*   reset      : ALLOC.store(0)          ; DEALLOC.store(0)               *)
(*   stats      : ALLOC.load              ; DEALLOC.load, diff             *)
(* A Layout is modelled by its size: the alignment is only forwarded to    *)
(* the system allocator and never reaches a counter.                       *)
(***************************************************************************)
EXTENDS Integers, Sequences, FiniteSets, TLC

\* ---------------------------------------------------------------- bounds
\* Number of threads that call into the allocator.
NumThreads == 2
\* Calls made in one run of the concurrent specification.
MaxOps == 4
\* Calls made in one run of the single-threaded specification.
MaxSeqOps == 6
\* Blocks the system allocator can have live at once; beyond that it is out
\* of memory and returns null.
MaxBlocks == 3
\* Width of usize / isize in bits (64 on the targets of the crate, scaled).
UsizeBits == 10
\* Calls made in one run that starts from counters anywhere in their range.
MaxNumOps == 2

Threads == 1..NumThreads
\* The thread of the single-threaded specification.
MainThread == CHOOSE t \in Threads : \A u \in Threads : t <= u
\* Layout sizes the callers ask for: the sizes of the documented scenario.
\* (A zero-sized layout is outside the contract of System.alloc.)
Sizes == {36, 64}
\* Addresses the system allocator hands out.
Ptrs == 1..MaxBlocks

\* ------------------------------------------------------ machine integers
RECURSIVE Pow2(_)
Pow2(n) == IF n = 0 THEN 1 ELSE 2 * Pow2(n - 1)

\* usize arithmetic is modulo 2^UsizeBits (AtomicUsize::fetch_add wraps).
UsizeModulus == Pow2(UsizeBits)
IsizeMax == Pow2(UsizeBits - 1) - 1

\* Mutant of as_isize: the sign boundary is off by one.
as_isize_early(x) == IF x >= IsizeMax THEN x - UsizeModulus ELSE x

\* `x as isize`: the two's complement reinterpretation of a usize.
as_isize(x) == IF x > IsizeMax THEN x - UsizeModulus ELSE x

\* isize subtraction as the release build computes it (wrapping).
wrapping_sub(a, b) == as_isize((a - b) % UsizeModulus)

\* The null pointer.
NULL == 0

VARIABLES
    ALLOC,      \* static ALLOC: AtomicUsize
    DEALLOC,    \* static DEALLOC: AtomicUsize
    heap,       \* blocks live in the system allocator: set of [ptr, size]
    held,       \* blocks returned by allocate and not yet given to deallocate
    pc,         \* pc[t]: the operation thread t is inside, or "idle"
    layout,     \* layout[t]: the layout argument of t's current call (its size)
    ptr,        \* ptr[t]: the pointer local of t's current call
    alloc,      \* alloc[t]: the local `alloc` of t's stats() call
    ret,        \* ret[t]: what t's last call returned (NoRet inside a call)
    budget,     \* calls that may still begin
    recording,  \* whether the run keeps a history of its calls
    was_reset,  \* history: whether reset() has been called
    log         \* history: the calls that have returned, in the order they returned

vars == <<ALLOC, DEALLOC, heap, held, pc, layout, ptr, alloc, ret, budget, recording,
          was_reset, log>>

\* A return value.  kind is "none" before the first call, "Ok" / "Err" for
\* allocate, "unit" for deallocate and reset, "Stats" for stats.
NoRet == [kind |-> "none", ptr |-> NULL, len |-> 0, alloc |-> 0, dealloc |-> 0, diff |-> 0]
Err == [NoRet EXCEPT !.kind = "Err"]
Ok(p, n) == [NoRet EXCEPT !.kind = "Ok", !.ptr = p, !.len = n]
Unit == [NoRet EXCEPT !.kind = "unit"]

\* -------------------------------------------------------------- counters
\* Mutants of record_alloc: the size is added twice; the size is stored
\* instead of added.
record_alloc_twice(size) == (ALLOC + size + size) % UsizeModulus
record_alloc_store(size) == size % UsizeModulus

\* record_alloc: ALLOC.fetch_add(layout.size(), SeqCst); the new value.
record_alloc(size) == (ALLOC + size) % UsizeModulus

\* Mutant of record_dealloc: nothing is added.
record_dealloc_skip(size) == DEALLOC

\* record_dealloc: DEALLOC.fetch_add(layout.size(), SeqCst); the new value.
record_dealloc(size) == (DEALLOC + size) % UsizeModulus

\* Mutant of is_null: the null test is missing.
is_null_never(p) == FALSE

\* ptr.is_null()
is_null(p) == p = NULL

\* Mutant of Stats: the difference is taken the wrong way round.
Stats_swapped(a, d) ==
    [NoRet EXCEPT !.kind = "Stats", !.alloc = a, !.dealloc = d,
                  !.diff = wrapping_sub(as_isize(d), as_isize(a))]

\* The Stats value built by stats() from its two loads.
Stats(a, d) ==
    [NoRet EXCEPT !.kind = "Stats", !.alloc = a, !.dealloc = d,
                  !.diff = wrapping_sub(as_isize(a), as_isize(d))]

\* The addresses not in use.
Free == {p \in Ptrs : \A b \in heap : b.ptr # p}

\* What the system allocator may return for a request: null (out of memory,
\* or a layout it rejects), or the address of a block not in use.  The code
\* never looks at the address, so the lowest free one stands for them all.
System_alloc(size) == {NULL} \cup {p \in Free : \A q \in Free : p <= q}

\* ----------------------------------------------------------------- init
\* The statics are zero at process start; no thread is inside a call.
InitCode ==
    /\ ALLOC = 0
    /\ DEALLOC = 0
    /\ heap = {}
    /\ held = {}
    /\ pc = [t \in Threads |-> "idle"]
    /\ layout = [t \in Threads |-> 0]
    /\ ptr = [t \in Threads |-> NULL]
    /\ alloc = [t \in Threads |-> 0]
    /\ ret = [t \in Threads |-> NoRet]
    /\ was_reset = FALSE
    /\ log = <<>>

\* Threads calling concurrently, MaxOps calls in all.
Init == InitCode /\ budget = MaxOps /\ recording = FALSE

\* One thread making MaxSeqOps calls, with their history.
InitSeq == InitCode /\ budget = MaxSeqOps /\ recording = TRUE

\* A call begins: thread t is idle and the run may still make a call.
Begin(t, op) ==
    /\ pc[t] = "idle"
    /\ budget > 0
    /\ budget' = budget - 1
    /\ pc' = [pc EXCEPT ![t] = op]
    /\ ret' = [ret EXCEPT ![t] = NoRet]
    /\ was_reset' = (was_reset \/ op = "reset")
    /\ UNCHANGED <<recording, log>>

\* A call returns r; its locals are gone.
Return(t, r) ==
    /\ pc' = [pc EXCEPT ![t] = "idle"]
    /\ ret' = [ret EXCEPT ![t] = r]
    /\ layout' = [layout EXCEPT ![t] = 0]
    /\ ptr' = [ptr EXCEPT ![t] = NULL]
    /\ alloc' = [alloc EXCEPT ![t] = 0]
    /\ log' = IF recording
                THEN Append(log, [op |-> pc[t], t |-> t, size |-> layout[t],
                                  ptr |-> ptr[t], ret |-> r])
                ELSE log
    /\ UNCHANGED <<budget, recording, was_reset>>

\* ------------------------------------------------------------- allocate
\* let ptr = System.alloc(layout);
allocate_System_alloc(t, size, p) ==
    /\ Begin(t, "allocate")
    /\ p \in System_alloc(size)
    /\ layout' = [layout EXCEPT ![t] = size]
    /\ ptr' = [ptr EXCEPT ![t] = p]
    /\ heap' = IF p = NULL THEN heap ELSE heap \cup {[ptr |-> p, size |-> size]}
    /\ UNCHANGED <<ALLOC, DEALLOC, held, alloc>>

\* if ptr.is_null() { Err(AllocError) } else { ...; record_alloc(layout); Ok(slice) }
allocate_return(t) ==
    /\ pc[t] = "allocate"
    /\ IF is_null(ptr[t])
         THEN /\ Return(t, Err)
              /\ UNCHANGED <<ALLOC, held>>
         ELSE /\ ALLOC' = record_alloc(layout[t])
              /\ held' = held \cup {[ptr |-> ptr[t], size |-> layout[t]]}
              /\ Return(t, Ok(ptr[t], layout[t]))
    /\ UNCHANGED <<DEALLOC, heap>>

\* ----------------------------------------------------------- deallocate
\* The caller passes a block it holds, with the layout it was allocated with.
\* Self::record_dealloc(layout);
deallocate_record_dealloc(t, b) ==
    /\ Begin(t, "deallocate")
    /\ b \in held
    /\ held' = held \ {b}
    /\ layout' = [layout EXCEPT ![t] = b.size]
    /\ ptr' = [ptr EXCEPT ![t] = b.ptr]
    /\ DEALLOC' = record_dealloc(b.size)
    /\ UNCHANGED <<ALLOC, heap, alloc>>

\* Mutant of deallocate_System_dealloc: the block is not forwarded.
deallocate_without_dealloc(t) ==
    /\ pc[t] = "deallocate"
    /\ Return(t, Unit)
    /\ UNCHANGED <<ALLOC, DEALLOC, heap, held>>

\* System.dealloc(raw_ptr, layout);
deallocate_System_dealloc(t) ==
    /\ pc[t] = "deallocate"
    /\ heap' = heap \ {[ptr |-> ptr[t], size |-> layout[t]]}
    /\ Return(t, Unit)
    /\ UNCHANGED <<ALLOC, DEALLOC, held>>

\* ---------------------------------------------------------------- reset
\* Mutant of reset_ALLOC_store: the two stores are in the other order.
reset_DEALLOC_first(t) ==
    /\ Begin(t, "reset")
    /\ DEALLOC' = 0
    /\ UNCHANGED <<ALLOC, heap, held, layout, ptr, alloc>>

\* Mutant of reset_DEALLOC_store: the second store is missing.
reset_without_DEALLOC(t) ==
    /\ pc[t] = "reset"
    /\ Return(t, Unit)
    /\ UNCHANGED <<ALLOC, DEALLOC, heap, held>>

\* ALLOC.store(0, SeqCst);
reset_ALLOC_store(t) ==
    /\ Begin(t, "reset")
    /\ ALLOC' = 0
    /\ UNCHANGED <<DEALLOC, heap, held, layout, ptr, alloc>>

\* DEALLOC.store(0, SeqCst);
reset_DEALLOC_store(t) ==
    /\ pc[t] = "reset"
    /\ DEALLOC' = 0
    /\ Return(t, Unit)
    /\ UNCHANGED <<ALLOC, heap, held>>

\* ---------------------------------------------------------------- stats
\* let alloc = ALLOC.load(SeqCst);
stats_ALLOC_load(t) ==
    /\ Begin(t, "stats")
    /\ alloc' = [alloc EXCEPT ![t] = ALLOC]
    /\ UNCHANGED <<ALLOC, DEALLOC, heap, held, layout, ptr>>

\* let dealloc = DEALLOC.load(SeqCst); let diff = ...; Stats { alloc, dealloc, diff }
stats_DEALLOC_load(t) ==
    /\ pc[t] = "stats"
    /\ Return(t, Stats(alloc[t], DEALLOC))
    /\ UNCHANGED <<ALLOC, DEALLOC, heap, held>>

\* ------------------------------------------------------- specifications
\* One atomic step of thread t.
Step(t) ==
    \/ \E size \in Sizes : \E p \in Ptrs \cup {NULL} : allocate_System_alloc(t, size, p)
    \/ allocate_return(t)
    \/ \E b \in held : deallocate_record_dealloc(t, b)
    \/ deallocate_System_dealloc(t)
    \/ reset_ALLOC_store(t)
    \/ reset_DEALLOC_store(t)
    \/ stats_ALLOC_load(t)
    \/ stats_DEALLOC_load(t)

\* Any number of threads call into the allocator concurrently.
Next == \E t \in Threads : Step(t)

Spec == Init /\ [][Next]_vars

\* One thread calls into the allocator; every call returns before the next.
NextSeq == Step(MainThread)

SpecSeq == InitSeq /\ [][NextSeq]_vars

\* Counter values over the whole usize range: the ends, the two sides of
\* isize::MAX, and values within one layout of them.
CounterValues ==
    {0, 36, IsizeMax - 64, IsizeMax, IsizeMax + 1, IsizeMax + 36,
     UsizeModulus - 64, UsizeModulus - 1}

\* A process that has been running for long: no call in progress, no block
\* held, the counters anywhere in their range (they differ only after a
\* reset() that found blocks held).  One thread then makes MaxNumOps calls.
InitNum ==
    /\ ALLOC \in CounterValues
    /\ DEALLOC \in CounterValues
    /\ heap = {}
    /\ held = {}
    /\ pc = [t \in Threads |-> "idle"]
    /\ layout = [t \in Threads |-> 0]
    /\ ptr = [t \in Threads |-> NULL]
    /\ alloc = [t \in Threads |-> 0]
    /\ ret = [t \in Threads |-> NoRet]
    /\ was_reset = (ALLOC # DEALLOC)
    /\ log = <<>>
    /\ budget = MaxNumOps
    /\ recording = FALSE

NextNum == Step(MainThread)

SpecNum == InitNum /\ [][NextNum]_vars

\* N threads each make one allocate call with the same layout; when all have
\* returned, one of them calls stats.
Called(t) == pc[t] # "idle" \/ \E i \in 1..Len(log) : log[i].t = t

SameLayout(size) ==
    /\ \A i \in 1..Len(log) : log[i].size = size
    /\ \A u \in Threads : pc[u] = "allocate" => layout[u] = size

AllReturned ==
    \A u \in Threads : pc[u] = "idle" /\ \E i \in 1..Len(log) : log[i].t = u

InitConc == InitCode /\ budget = NumThreads + 1 /\ recording = TRUE

NextConc ==
    \E t \in Threads :
        \/ \E size \in Sizes : \E p \in Ptrs \cup {NULL} :
              ~Called(t) /\ SameLayout(size) /\ allocate_System_alloc(t, size, p)
        \/ allocate_return(t)
        \/ AllReturned /\ stats_ALLOC_load(t)
        \/ stats_DEALLOC_load(t)

SpecConc == InitConc /\ [][NextConc]_vars

\* ------------------------------------------------------------ properties
TypeOK ==
    /\ ALLOC \in 0..(UsizeModulus - 1)
    /\ DEALLOC \in 0..(UsizeModulus - 1)
    /\ held \subseteq heap
    /\ \A t \in Threads : pc[t] \in {"idle", "allocate", "deallocate", "reset", "stats"}
    /\ budget \in Nat

\* Thread t's step is the first one of a call of op (the call begins).
Begins(t, op) == pc[t] = "idle" /\ pc'[t] = op

\* Thread t's step is the second one of a call of op (the call returns).
Returns(t, op) == pc[t] = op /\ pc'[t] = "idle"

\* C1: an allocate whose System.alloc returns null returns Err(AllocError),
\* and neither of its two steps changes ALLOC or DEALLOC.
C1_FailedAllocateCountsNothing ==
    [][\A t \in Threads :
         /\ (Begins(t, "allocate") /\ ptr'[t] = NULL)
              => (ALLOC' = ALLOC /\ DEALLOC' = DEALLOC)
         /\ (Returns(t, "allocate") /\ ptr[t] = NULL)
              => (ALLOC' = ALLOC /\ DEALLOC' = DEALLOC /\ ret'[t] = Err)]_vars

\* An allocate has failed and returned Err while both counters were above
\* zero.
C1_Witness ==
    \E t \in Threads : ret[t].kind = "Err" /\ ALLOC > 0 /\ DEALLOC > 0

\* C2: an allocate whose System.alloc returns a block adds layout.size() to
\* ALLOC in its second step and nothing in its first (so exactly once), leaves
\* DEALLOC unchanged, and returns Ok with that block and length layout.size().
C2_SuccessfulAllocateCountsSize ==
    [][\A t \in Threads :
         /\ (Begins(t, "allocate") /\ ptr'[t] # NULL)
              => (ALLOC' = ALLOC /\ DEALLOC' = DEALLOC)
         /\ (Returns(t, "allocate") /\ ptr[t] # NULL)
              => /\ ALLOC' = ALLOC + layout[t]
                 /\ DEALLOC' = DEALLOC
                 /\ ret'[t].kind = "Ok"
                 /\ ret'[t].ptr = ptr[t]
                 /\ ret'[t].len = layout[t]]_vars

\* An allocate of a block of positive size returned Ok on top of a counter
\* that was already above zero.
C2_Witness ==
    \E t \in Threads :
        /\ ret[t].kind = "Ok"
        /\ ret[t].len > 0
        /\ ALLOC > ret[t].len

\* C3: the first step of every deallocate adds layout.size() to DEALLOC,
\* leaves ALLOC unchanged and the block live; the block leaves the system
\* allocator only in the second step, which changes neither counter.
C3_DeallocateCountsBeforeRelease ==
    [][\A t \in Threads :
         /\ Begins(t, "deallocate")
              => /\ DEALLOC' = DEALLOC + layout'[t]
                 /\ ALLOC' = ALLOC
                 /\ heap' = heap
                 /\ [ptr |-> ptr'[t], size |-> layout'[t]] \in heap
         /\ Returns(t, "deallocate")
              => /\ DEALLOC' = DEALLOC
                 /\ ALLOC' = ALLOC
                 /\ heap' = heap \ {[ptr |-> ptr[t], size |-> layout[t]]}
         /\ (\E b \in heap : b \notin heap')
              => \E u \in Threads : Returns(u, "deallocate")]_vars

\* A deallocate of a block of positive size has been counted and the block
\* has not been released yet.
C3_Witness ==
    \E t \in Threads :
        /\ pc[t] = "deallocate"
        /\ layout[t] > 0
        /\ DEALLOC > layout[t]
        /\ [ptr |-> ptr[t], size |-> layout[t]] \in heap

\* ------------------------------------------- properties of a call history
\* The index of the last reset among the first n - 1 calls of log (0: none).
LastReset(n) ==
    LET R == {i \in 1..(n - 1) : log[i].op = "reset"}
    IN IF R = {} THEN 0 ELSE CHOOSE i \in R : \A j \in R : j <= i

\* The calls between the last reset (or the start of the run) and call n.
Since(n) == SubSeq(log, LastReset(n) + 1, n - 1)

IsAllocated(e) == e.op = "allocate" /\ e.ret.kind = "Ok"

\* The bytes obtained by the successful allocate calls of h.
RECURSIVE SumAllocated(_)
SumAllocated(h) ==
    IF h = <<>> THEN 0
    ELSE (IF IsAllocated(Head(h)) THEN Head(h).size ELSE 0) + SumAllocated(Tail(h))

\* The bytes given back by the deallocate calls of h.
RECURSIVE SumDeallocated(_)
SumDeallocated(h) ==
    IF h = <<>> THEN 0
    ELSE (IF Head(h).op = "deallocate" THEN Head(h).size ELSE 0) + SumDeallocated(Tail(h))

\* The blocks allocated by h and not deallocated by it.
RECURSIVE LiveAfter(_)
LiveAfter(h) ==
    IF h = <<>> THEN {}
    ELSE LET e == h[Len(h)]
             before == LiveAfter(SubSeq(h, 1, Len(h) - 1))
             b == [ptr |-> e.ptr, size |-> e.size]
         IN IF IsAllocated(e) THEN before \cup {b}
            ELSE IF e.op = "deallocate" THEN before \ {b}
            ELSE before

\* Every deallocate of h releases a block that h allocated, with its layout.
OwnBlocksOnly(h) ==
    \A i \in 1..Len(h) :
        h[i].op = "deallocate"
            => [ptr |-> h[i].ptr, size |-> h[i].size] \in LiveAfter(SubSeq(h, 1, i - 1))

RECURSIVE TotalSize(_)
TotalSize(B) ==
    IF B = {} THEN 0
    ELSE LET b == CHOOSE x \in B : TRUE IN b.size + TotalSize(B \ {b})

\* h is a sequence of successful allocate calls, each immediately followed
\* by the deallocate of its block with the same layout.
Paired(h) ==
    /\ Len(h) % 2 = 0
    /\ \A k \in 1..(Len(h) \div 2) :
         /\ IsAllocated(h[2 * k - 1])
         /\ h[2 * k].op = "deallocate"
         /\ h[2 * k].size = h[2 * k - 1].size
         /\ h[2 * k].ptr = h[2 * k - 1].ptr

\* C4: single-threaded, a stats() made after a reset() and then allocate and
\* deallocate calls that release only blocks allocated since that reset
\* returns alloc = the bytes of the successful allocations since the reset,
\* dealloc = the bytes of the deallocations since the reset, and diff = the
\* total size of the blocks allocated since the reset and still live.
C4_StatsAfterReset ==
    LET n == Len(log) IN
    (/\ n > 0
     /\ log[n].op = "stats"
     /\ LastReset(n) > 0
     /\ OwnBlocksOnly(Since(n)))
        => /\ log[n].ret.alloc = SumAllocated(Since(n))
           /\ log[n].ret.dealloc = SumDeallocated(Since(n))
           /\ log[n].ret.diff = TotalSize(LiveAfter(Since(n)))

\* The documented scenario, to its end: reset, allocate 64, allocate 36,
\* deallocate the 64-byte block, deallocate the 36-byte block, and
\* stats = {alloc: 100, dealloc: 100, diff: 0}.
C4_Witness ==
    /\ Len(log) = 6
    /\ log[1].op = "reset"
    /\ IsAllocated(log[2]) /\ log[2].size = 64
    /\ IsAllocated(log[3]) /\ log[3].size = 36
    /\ log[4].op = "deallocate" /\ log[4].size = 64 /\ log[4].ptr = log[2].ptr
    /\ log[5].op = "deallocate" /\ log[5].size = 36 /\ log[5].ptr = log[3].ptr
    /\ log[6].op = "stats"
    /\ log[6].ret.alloc = 100 /\ log[6].ret.dealloc = 100 /\ log[6].ret.diff = 0

\* C5: single-threaded, when the calls made since the start of the process
\* (or since the last reset) are successful allocate calls each immediately
\* followed by the deallocate of its block with the same layout, a stats()
\* made after them returns diff = 0.
C5_ZeroSum ==
    LET n == Len(log) IN
    (n > 0 /\ log[n].op = "stats" /\ Paired(Since(n))) => log[n].ret.diff = 0

\* Two allocate / deallocate pairs of different positive sizes, then stats.
C5_Witness ==
    /\ Len(log) = 5
    /\ log[5].op = "stats"
    /\ Paired(SubSeq(log, 1, 4))
    /\ log[1].size > 0
    /\ log[3].size > 0
    /\ log[3].size # log[1].size
    /\ log[5].ret.diff = 0
    /\ log[5].ret.alloc = log[1].size + log[3].size

\* C6: single-threaded, reset(), then two successful allocate calls with
\* layouts L1 and L2, then stats(): stats().alloc = L1.size + L2.size.
C6_Additivity ==
    LET n == Len(log) IN
    (/\ n >= 4
     /\ log[n].op = "stats"
     /\ IsAllocated(log[n - 1])
     /\ IsAllocated(log[n - 2])
     /\ log[n - 3].op = "reset")
        => log[n].ret.alloc = log[n - 2].size + log[n - 1].size

\* An allocation before the reset, then reset, two successful allocations of
\* different positive sizes, and stats.
C6_Witness ==
    /\ Len(log) = 5
    /\ IsAllocated(log[1]) /\ log[1].size > 0
    /\ log[2].op = "reset"
    /\ IsAllocated(log[3]) /\ log[3].size > 0
    /\ IsAllocated(log[4]) /\ log[4].size > 0 /\ log[4].size # log[3].size
    /\ log[5].op = "stats"

\* C7: when N threads have each made one successful allocate call with the
\* same layout L, in any interleaving of their steps, and all have returned,
\* stats() returns alloc = N * L.size.
C7_ConcurrentAddition ==
    LET n == Len(log) IN
    (/\ n > 0
     /\ log[n].op = "stats"
     /\ \A i \in 1..(n - 1) : IsAllocated(log[i]) /\ log[i].size = log[1].size
     /\ \A i, j \in 1..(n - 1) : i # j => log[i].t # log[j].t)
        => log[n].ret.alloc = (n - 1) * (IF n > 1 THEN log[1].size ELSE 0)

\* Every thread made a successful allocate of the same positive size, and
\* the stats() made after them has returned.
C7_Witness ==
    /\ Len(log) = NumThreads + 1
    /\ log[Len(log)].op = "stats"
    /\ \A t \in Threads :
         \E i \in 1..NumThreads : log[i].t = t /\ IsAllocated(log[i]) /\ log[i].size > 0
    /\ log[Len(log)].ret.alloc = NumThreads * log[1].size

\* Thread r is between the two stores of reset(): ALLOC has been reset,
\* DEALLOC still holds bytes counted before the reset, and another thread is
\* inside stats, allocate or deallocate.
HalfReset(r) ==
    /\ pc[r] = "reset"
    /\ DEALLOC # 0
    /\ \E t \in Threads \ {r} : pc[t] \in {"stats", "allocate", "deallocate"}

\* C8 as stated: reset() sets both counters to zero atomically, so no
\* operation of another thread runs in a state where one counter has been
\* reset and the other has not.
C8_ResetIsAtomic == \A r \in Threads : ~HalfReset(r)

\* C8 amended: reset() is two atomic stores, the first setting ALLOC to zero
\* and leaving DEALLOC, the second setting DEALLOC to zero and leaving ALLOC;
\* other threads can run between the two.
C8_ResetStoresEachCounter ==
    [][\A t \in Threads :
         /\ Begins(t, "reset") => (ALLOC' = 0 /\ DEALLOC' = DEALLOC)
         /\ Returns(t, "reset") => (DEALLOC' = 0 /\ ALLOC' = ALLOC)]_vars

\* A reset has made its first store and not its second, while DEALLOC holds
\* bytes counted before it and another thread is inside an operation.
C8_Witness == \E r \in Threads : HalfReset(r) /\ ALLOC = 0

\* C9: single-threaded, a stats() made right after a reset() returns
\* {alloc: 0, dealloc: 0, diff: 0}, whatever preceded the reset: after the
\* first reset() and after a second one.
C9_ResetIdempotent ==
    LET n == Len(log) IN
    (n >= 2 /\ log[n].op = "stats" /\ log[n - 1].op = "reset")
        => (log[n].ret.alloc = 0 /\ log[n].ret.dealloc = 0 /\ log[n].ret.diff = 0)

\* With both counters above zero: reset, stats, reset, stats, or reset,
\* reset, stats.
C9_Witness ==
    LET n == Len(log) IN
    /\ n >= 5
    /\ IsAllocated(log[1]) /\ log[1].size > 0
    /\ log[n].op = "stats"
    /\ log[n - 1].op = "reset"
    /\ log[n - 2].op = "stats"
    /\ log[n - 3].op = "reset"
    /\ log[n].ret = log[n - 2].ret

\* C10: single-threaded, neither step of stats() changes ALLOC or DEALLOC,
\* and the Stats it returns holds alloc = ALLOC, dealloc = DEALLOC and
\* diff = ALLOC - DEALLOC.
C10_StatsReadsOnly ==
    [][\A t \in Threads :
         /\ Begins(t, "stats") => (ALLOC' = ALLOC /\ DEALLOC' = DEALLOC)
         /\ Returns(t, "stats")
              => /\ ALLOC' = ALLOC
                 /\ DEALLOC' = DEALLOC
                 /\ ret'[t].kind = "Stats"
                 /\ ret'[t].alloc = ALLOC
                 /\ ret'[t].dealloc = DEALLOC
                 /\ ret'[t].diff = ALLOC - DEALLOC]_vars

\* A stats() has returned with alloc and dealloc different and above zero.
C10_Witness ==
    /\ ret[MainThread].kind = "Stats"
    /\ ret[MainThread].dealloc > 0
    /\ ret[MainThread].alloc > ret[MainThread].dealloc
    /\ ret[MainThread].alloc = ALLOC
    /\ ret[MainThread].dealloc = DEALLOC

\* C11 as stated: a stats() that runs with no concurrent operation returns
\* diff >= 0.
C11_QuiescentDiffNonNegative ==
    LET n == Len(log) IN
    (n > 0 /\ log[n].op = "stats") => log[n].ret.diff >= 0

\* C11 amended: single-threaded, a stats() returns diff >= 0 when every
\* deallocate since the last reset (or since the start of the process)
\* released a block allocated since then.  A block allocated before a
\* reset() and deallocated after it makes diff negative with no concurrency.
C11_DiffNonNegativeForOwnBlocks ==
    LET n == Len(log) IN
    (n > 0 /\ log[n].op = "stats" /\ OwnBlocksOnly(Since(n)))
        => log[n].ret.diff >= 0

\* After a reset that found a block held: two allocations and a
\* deallocation of one of them, and a stats() with 0 < dealloc < alloc.
C11_Witness ==
    LET n == Len(log) IN
    /\ n > 0
    /\ log[n].op = "stats"
    /\ LastReset(n) > 1
    /\ OwnBlocksOnly(Since(n))
    /\ \E i \in 1..(LastReset(n) - 1) :
         IsAllocated(log[i]) /\ [ptr |-> log[i].ptr, size |-> log[i].size] \in held
    /\ log[n].ret.dealloc > 0
    /\ log[n].ret.diff > 0

\* C13 as stated: with every deallocate releasing a block returned by an
\* earlier successful allocate, with its layout, once, DEALLOC <= ALLOC in
\* every reachable state.
C13_DeallocAtMostAlloc == DEALLOC <= ALLOC

\* C13 amended: with the same usage, DEALLOC <= ALLOC in every reachable
\* state of a run in which reset() has not been called, under every
\* interleaving of the threads.
C13_DeallocAtMostAllocBeforeReset == (~was_reset) => DEALLOC <= ALLOC

\* No reset so far; one thread has counted the deallocation of the only block
\* counted so far (DEALLOC = ALLOC > 0) while another thread is inside
\* allocate with a block that is not counted yet.
C13_Witness ==
    /\ ~was_reset
    /\ ALLOC > 0
    /\ DEALLOC = ALLOC
    /\ \E t, u \in Threads :
         /\ pc[t] = "deallocate"
         /\ pc[u] = "allocate"
         /\ ptr[u] # NULL

\* The block of thread t's current call.
OwnBlock(t) == [ptr |-> ptr[t], size |-> layout[t]]

\* Thread t is inside a call that has a block in hand: an allocate whose
\* System.alloc returned a block, or a deallocate before its System.dealloc.
InCall(t) == pc[t] = "deallocate" \/ (pc[t] = "allocate" /\ ptr[t] # NULL)

InFlight == {OwnBlock(t) : t \in {u \in Threads : InCall(u)}}

\* The blocks live in the system allocator are the blocks the callers hold
\* and the blocks inside a call; no block is both, or inside two calls.
LiveIsHeldOrInFlight ==
    /\ heap = held \cup InFlight
    /\ held \cap InFlight = {}
    /\ \A t, u \in Threads : (t # u /\ InCall(t) /\ InCall(u)) => ptr[t] # ptr[u]

\* C14: allocate calls System.alloc once, with the caller's layout, in its
\* first step and not again after a null (its second step leaves the system
\* allocator alone); deallocate calls System.dealloc once, in its second
\* step, with the pointer and layout it was given; reset and stats never
\* touch the system allocator.  The allocator keeps no block: the live blocks
\* are those held by callers and those inside a call, so with no call in
\* progress a block is live exactly when it was returned by allocate and
\* not yet passed to deallocate.
C14_ForwardsOnceKeepsNothing ==
    [][/\ \A t \in Threads :
            /\ Begins(t, "allocate")
                 => /\ heap' = IF ptr'[t] = NULL
                                 THEN heap
                                 ELSE heap \cup {[ptr |-> ptr'[t], size |-> layout'[t]]}
                    /\ ptr'[t] # NULL => \A b \in heap : b.ptr # ptr'[t]
            /\ Returns(t, "allocate")
                 => /\ heap' = heap
                    /\ held' = IF ptr[t] = NULL THEN held ELSE held \cup {OwnBlock(t)}
            /\ Begins(t, "deallocate")
                 => /\ heap' = heap
                    /\ [ptr |-> ptr'[t], size |-> layout'[t]] \in held
                    /\ held' = held \ {[ptr |-> ptr'[t], size |-> layout'[t]]}
            /\ Returns(t, "deallocate")
                 => /\ OwnBlock(t) \in heap
                    /\ heap' = heap \ {OwnBlock(t)}
                    /\ held' = held
            /\ (Begins(t, "reset") \/ Returns(t, "reset")
                  \/ Begins(t, "stats") \/ Returns(t, "stats"))
                 => (heap' = heap /\ held' = held)
       /\ LiveIsHeldOrInFlight'
       /\ ((\A t \in Threads : pc'[t] = "idle") => heap' = held')]_vars

\* A block held by a caller, a block inside allocate and a block inside
\* deallocate are live together.
C14_Witness ==
    /\ held # {}
    /\ \E t, u \in Threads :
         /\ pc[t] = "deallocate"
         /\ pc[u] = "allocate"
         /\ ptr[u] # NULL
    /\ Cardinality(heap) = 3

\* C15 as stated: each counter is non-decreasing over time, so a read made
\* after an add returns at least the value the add left.
C15_CountersNeverDecrease ==
    [][ALLOC' >= ALLOC /\ DEALLOC' >= DEALLOC]_vars

\* C15 amended: every step except the first store of a reset() leaves ALLOC
\* at least as large, every step except the second store of a reset() leaves
\* DEALLOC at least as large, and stats() returns the values its two loads
\* found.  So a stats() whose load follows an add, with no store of a
\* reset() in between, returns at least the value the add left.
C15_CountersDecreaseOnlyByReset ==
    [][/\ (\A t \in Threads : ~Begins(t, "reset")) => ALLOC' >= ALLOC
       /\ (\A t \in Threads : ~Returns(t, "reset")) => DEALLOC' >= DEALLOC
       /\ \A t \in Threads :
            /\ Begins(t, "stats") => alloc'[t] = ALLOC
            /\ Returns(t, "stats")
                 => (ret'[t].alloc = alloc[t] /\ ret'[t].dealloc = DEALLOC)]_vars

\* With no reset so far, a stats() has returned the sum of two allocations
\* of different sizes that completed before it.
C15_Witness ==
    \E t \in Threads :
        /\ ~was_reset
        /\ ret[t].kind = "Stats"
        /\ ret[t].alloc = 36 + 64
        /\ ALLOC = 36 + 64

\* a and b are on the same side of isize::MAX, so that `as isize` shifts
\* both or neither.
SameSide(a, b) == (a <= IsizeMax) = (b <= IsizeMax)

\* C16 as stated: for all counter values in the usize range, diff is the
\* mathematical alloc - dealloc, and record_alloc / record_dealloc add the
\* size without wrapping.
C16_ExactOverFullRange ==
    [][\A t \in Threads :
         /\ Returns(t, "stats") => ret'[t].diff = alloc[t] - DEALLOC
         /\ (Returns(t, "allocate") /\ ptr[t] # NULL) => ALLOC' = ALLOC + layout[t]
         /\ Begins(t, "deallocate") => DEALLOC' = DEALLOC + layout'[t]]_vars

\* C16 amended: diff is the mathematical alloc - dealloc when the two values
\* loaded are on the same side of isize::MAX (in particular when both are at
\* most isize::MAX); record_alloc / record_dealloc add the size modulo
\* 2^UsizeBits, exactly as long as the sum is below 2^UsizeBits.
C16_ExactWithinRange ==
    [][\A t \in Threads :
         /\ (Returns(t, "stats") /\ SameSide(alloc[t], DEALLOC))
              => ret'[t].diff = alloc[t] - DEALLOC
         /\ (Returns(t, "allocate") /\ ptr[t] # NULL)
              => ALLOC' = IF ALLOC + layout[t] < UsizeModulus
                            THEN ALLOC + layout[t]
                            ELSE ALLOC + layout[t] - UsizeModulus
         /\ Begins(t, "deallocate")
              => DEALLOC' = IF DEALLOC + layout'[t] < UsizeModulus
                              THEN DEALLOC + layout'[t]
                              ELSE DEALLOC + layout'[t] - UsizeModulus]_vars

\* A stats() has returned with alloc = isize::MAX, the largest value that
\* `as isize` leaves alone, and a smaller dealloc above zero.
C16_Witness ==
    /\ ret[MainThread].kind = "Stats"
    /\ ret[MainThread].alloc = IsizeMax
    /\ ret[MainThread].dealloc = 36
    /\ ret[MainThread].diff = IsizeMax - 36

====
